---------------------------- MODULE Spec2Model ----------------------------
(***************************************************************************)
(* A model of the two-phase cube solver: the cube crate (state, moves,     *)
(* verification), the coordinate encoders, the transition and pruning      *)
(* tables, and the phase 0 / phase 1 depth-first searches.                 *)
(*                                                                         *)
(* Corners and edges are their enum ordinals (URF = 0 .. DRB = 7,          *)
(* UR = 0 .. BR = 11); an array is a sequence, its slot i (from 0) being   *)
(* the sequence's element i + 1.                                           *)
(***************************************************************************)
EXTENDS Integers, Sequences, FiniteSets, TLC

VARIABLES
  cube,      \* the Cube value an operation works on
  prev,      \* the Cube before the last apply_move
  start,     \* the Cube the run started from
  moves,     \* the moves applied so far, in order
  panicked,  \* TRUE once an operation has panicked (the run is aborted)
  res,       \* the value the last operation returned
  enc,       \* the coordinate encoder in use
  cin,       \* the coordinate given to set_coord
  cout,      \* the coordinate get_coord returned
  trow,      \* init_transition_table: the row v[i] being filled
  ttab,      \* init_prune_table: the transition table (trans_table)
  pmax,      \* init_prune_table: max_depth
  ptable,    \* init_prune_table: the pruning table being filled
  pstack,    \* init_prune_table_inner: the call stack, the running call last
  phase,     \* the search: 0 for phase0, 1 for phase1
  tabs,      \* the search: its tables (Phase0Tables / Phase1Tables)
  coord0,    \* the search: the coordinate of the outermost call
  depth0,    \* the search: depth_remaining of the outermost call
  sol0,      \* the search: the solution vector at the outermost call
  solution,  \* the search: the solution vector
  stack,     \* the search: the call stack, the running call last
  ret        \* the search: the value the last call returned

cubeVars == <<cube, prev, start, moves, panicked, res>>

coordVars == <<enc, cin, cout, trow>>

pruneVars == <<ttab, pmax, ptable, pstack>>

searchVars == <<phase, tabs, coord0, depth0, sol0, solution, stack, ret>>

vars == <<cubeVars, coordVars, pruneVars, searchVars>>

\* The encoders are not in use.
IdleCoord == enc = "none" /\ cin = 0 /\ cout = 0 /\ trow = <<>>

\* No pruning table is being built.
IdlePrune == ttab = <<>> /\ pmax = 0 /\ ptable = <<>> /\ pstack = <<>>

\* No search is running.
IdleSearch ==
  /\ phase = 0 /\ tabs = <<>> /\ coord0 = <<>> /\ depth0 = 0
  /\ sol0 = <<>> /\ solution = <<>> /\ stack = <<>> /\ ret = "none"

-----------------------------------------------------------------------------
(* cube/src/lib.rs : data model *)

NUM_CORNERS == 8
NUM_EDGES == 12

\* enum Face { U, R, F, D, B, L }: the declaration order gives `face as usize`.
Faces == {"U", "R", "F", "D", "B", "L"}

FaceAsUsize(f) ==
  CASE f = "U" -> 0 [] f = "R" -> 1 [] f = "F" -> 2
    [] f = "D" -> 3 [] f = "B" -> 4 [] f = "L" -> 5

\* struct Move(pub Face, pub u8)
Move(f, n) == [face |-> f, count |-> n]

\* An array literal, and the read of its slot i (from 0).
Arr(s) == s

At(a, i) == a[i + 1]

\* [v; n]
Fill(n, v) == [i \in 1 .. n |-> v]

\* The slots of an array of length n, and the array given slot by slot:
\* [i \in Slots(n) |-> e(i - 1)] holds e(j) in its slot j.
Slots(n) == 1 .. n

MOVE_PERM_U ==
  [ cp |-> Arr(<<3, 0, 1, 2, 4, 5, 6, 7>>),
    co |-> Fill(8, 0),
    ep |-> Arr(<<3, 0, 1, 2, 4, 5, 6, 7, 8, 9, 10, 11>>),
    eo |-> Fill(12, 0) ]

\* const MOVE_PERMS: [MovePerm; 1] = [MOVE_PERM_U], indexed from 0.
MOVE_PERMS == Arr(<<MOVE_PERM_U>>)

MkCube(cp, co, ep, eo) == [cp |-> cp, co |-> co, ep |-> ep, eo |-> eo]

\* Cube::new_unchecked
new_unchecked(cp, co, ep, eo) == MkCube(cp, co, ep, eo)

\* Bitwise exclusive or of two u8 values.
RECURSIVE Xor(_, _)
Xor(a, b) ==
  IF a = 0 THEN b
  ELSE IF b = 0 THEN a
  ELSE (((a % 2) + (b % 2)) % 2) + (2 * Xor(a \div 2, b \div 2))

\* Sum of arr[0 .. n-1].
RECURSIVE SumTo(_, _)
SumTo(arr, n) == IF n = 0 THEN 0 ELSE At(arr, n - 1) + SumTo(arr, n - 1)

\* fn num_inversions: for i in 0..len - 1, for j in i + 1..len, count
\* perm[i] > perm[j].
RECURSIVE NumInversionsFrom(_, _, _)
NumInversionsFrom(perm, len, i) ==
  IF i >= len - 1 THEN 0
  ELSE Cardinality({j \in i + 1 .. len - 1 : At(perm, i) > At(perm, j)})
         + NumInversionsFrom(perm, len, i + 1)

num_inversions(perm, len) == NumInversionsFrom(perm, len, 0)

corner_parity(c) == num_inversions(c.cp, NUM_CORNERS) % 2 # 0

edge_parity(c) == num_inversions(c.ep, NUM_EDGES) % 2 # 0

\* The bit mask `m |= 1 << x` over all entries, as the set of the bits set.
Mask(arr, len) == {At(arr, i) : i \in 0 .. len - 1}

\* verify without the two range checks (eo <= 1, co <= 2): the sums alone.
verify_SumsOnly(c) ==
  IF Mask(c.ep, NUM_EDGES) # 0 .. 11 THEN "ErrEP"
  ELSE IF (SumTo(c.eo, NUM_EDGES) % 256) % 2 # 0 THEN "ErrEO"
  ELSE IF Mask(c.cp, NUM_CORNERS) # 0 .. 7 THEN "ErrCP"
  ELSE IF (SumTo(c.co, NUM_CORNERS) % 256) % 3 # 0 THEN "ErrCO"
  ELSE IF edge_parity(c) # corner_parity(c) THEN "ErrParity"
  ELSE "Ok"

\* Cube::verify, the checks in the order of the code; "Ok" or the error kind.
verify(c) ==
  IF Mask(c.ep, NUM_EDGES) # 0 .. 11 THEN "ErrEP"
  ELSE IF ~(\A i \in 0 .. NUM_EDGES - 1 : At(c.eo, i) <= 1) THEN "ErrEO"
  ELSE IF (SumTo(c.eo, NUM_EDGES) % 256) % 2 # 0 THEN "ErrEO"
  ELSE IF Mask(c.cp, NUM_CORNERS) # 0 .. 7 THEN "ErrCP"
  ELSE IF ~(\A i \in 0 .. NUM_CORNERS - 1 : At(c.co, i) <= 2) THEN "ErrCO"
  ELSE IF (SumTo(c.co, NUM_CORNERS) % 256) % 3 # 0 THEN "ErrCO"
  ELSE IF edge_parity(c) # corner_parity(c) THEN "ErrParity"
  ELSE "Ok"

\* Cube::solved: the corners and the edges in enum order, no orientation.
SolvedCP == Arr(<<0, 1, 2, 3, 4, 5, 6, 7>>)
SolvedEP == Arr(<<0, 1, 2, 3, 4, 5, 6, 7, 8, 9, 10, 11>>)

solved == MkCube(SolvedCP, Fill(8, 0), SolvedEP, Fill(12, 0))

\* Cube::apply_move_perm: the corner orientation offset is read at the source
\* slot j = move_perm.cp[i], the edge orientation offset at the slot i.
apply_move_perm(c, mp) ==
  MkCube([k \in Slots(8) |-> At(c.cp, At(mp.cp, k - 1))],
         [k \in Slots(8) |-> (At(c.co, At(mp.cp, k - 1)) + At(mp.co, At(mp.cp, k - 1))) % 3],
         [k \in Slots(12) |-> At(c.ep, At(mp.ep, k - 1))],
         [k \in Slots(12) |-> Xor(At(c.eo, At(mp.ep, k - 1)), At(mp.eo, k - 1))])

\* The outcome of an operation that may panic.
Panic == [panic |-> TRUE]
Ok(v) == [panic |-> FALSE, val |-> v]

\* Cube::apply_move: MOVE_PERMS is indexed by the face (a panic when the index
\* is out of bounds), the permutation is applied once whatever the move's
\* count, and the result is verified (a panic when it is not solvable).
apply_move(c, m) ==
  IF FaceAsUsize(m.face) >= Len(MOVE_PERMS) THEN Panic
  ELSE LET new == apply_move_perm(c, At(MOVE_PERMS, FaceAsUsize(m.face)))
       IN  IF verify(new) # "Ok" THEN Panic ELSE Ok(new)


-----------------------------------------------------------------------------
(* kociemba/src/transition_table.rs : the coordinate encoders.              *)
(* set_coord returns Panic or Ok(cube), the cube being the one it modified. *)

\* Bitwise or of two unsigned values.
RECURSIVE BitOr(_, _)
BitOr(a, b) ==
  IF a = 0 THEN b
  ELSE IF b = 0 THEN a
  ELSE (IF (a % 2) + (b % 2) > 0 THEN 1 ELSE 0) + (2 * BitOr(a \div 2, b \div 2))

\* fn factorial: (1..n + 1).product()
RECURSIVE factorial(_)
factorial(n) == IF n <= 0 THEN 1 ELSE n * factorial(n - 1)

\* n - k underflows in choose when n < k; the value stands for that outcome.
Underflow == -1

\* fn choose: factorial(n) / (factorial(k) * factorial(n - k))
choose(n, k) ==
  IF n < k THEN Underflow
  ELSE factorial(n) \div (factorial(k) * factorial(n - k))

\* Cube::has_valid_parity (called by the encoders, not in cube/src/lib.rs):
\* the parity condition of verify.
has_valid_parity(c) == edge_parity(c) = corner_parity(c)

\* cube.cp.swap(0, 1) when the parity is not valid.
FixParity(c) ==
  IF has_valid_parity(c) THEN c
  ELSE [c EXCEPT !.cp = [c.cp EXCEPT ![1] = c.cp[2], ![2] = c.cp[1]]]

\* cube.verify().unwrap()
VerifyUnwrap(c) == IF verify(c) = "Ok" THEN Ok(c) ELSE Panic

EO_NUM_ELEMS == 2048
CO_NUM_ELEMS == 2187
UD1_NUM_ELEMS == 495
EP_NUM_ELEMS == 40320

\* EOCoord::set_coord, the loop `for i in (0..11).rev()` from slot i down.
RECURSIVE EOSetLoop(_, _, _)
EOSetLoop(eo, v, i) ==
  IF i < 0 THEN eo
  ELSE LET b == v % 2
           e1 == [eo EXCEPT ![i + 1] = b]
           e2 == [e1 EXCEPT ![12] = Xor(e1[12], b)]
       IN  EOSetLoop(e2, v \div 2, i - 1)

EOCoord_set_coord(c, eo) ==
  IF ~(eo < EO_NUM_ELEMS) THEN Panic
  ELSE VerifyUnwrap([c EXCEPT !.eo = EOSetLoop(c.eo, eo, 10)])

\* EOCoord::get_coord: fold (acc | cur) << 1 over eo[..11], then >> 1.
RECURSIVE EOGetFold(_, _, _)
EOGetFold(eo, i, acc) ==
  IF i = 11 THEN acc ELSE EOGetFold(eo, i + 1, BitOr(acc, At(eo, i)) * 2)

EOCoord_get_coord(c) == EOGetFold(c.eo, 0, 0) \div 2

\* The same fold that drops the last shift's undoing (no >> 1).
EOCoord_get_coord_NoShiftBack(c) == EOGetFold(c.eo, 0, 0)

\* COCoord::set_coord, the loop `for i in (0..7).rev()` from slot i down.
RECURSIVE COSetLoop(_, _, _)
COSetLoop(co, v, i) ==
  IF i < 0 THEN co
  ELSE LET c1 == [co EXCEPT ![i + 1] = v % 3]
           c2 == [c1 EXCEPT ![8] = ((c1[8] + 3) - c1[i + 1]) % 3]
       IN  COSetLoop(c2, v \div 3, i - 1)

COCoord_set_coord(c, co) ==
  IF ~(co < CO_NUM_ELEMS) THEN Panic
  ELSE VerifyUnwrap([c EXCEPT !.co = COSetLoop(c.co, co, 6)])

\* COCoord::get_coord: fold acc * 3 + cur over co[..7].
RECURSIVE COGetFold(_, _, _)
COGetFold(co, i, acc) ==
  IF i = 7 THEN acc ELSE COGetFold(co, i + 1, (acc * 3) + At(co, i))

COCoord_get_coord(c) == COGetFold(c.co, 0, 0)

\* UD1Coord::set_coord, the loop `for i in (0..12).rev()`: Ok(the edge array),
\* or Panic when choose is called with i < k.
RECURSIVE UD1SetLoop(_, _, _, _)
UD1SetLoop(ep, coord, k, i) ==
  IF i < 0 THEN Ok(ep)
  ELSE LET binomial == choose(i, k)
       IN  IF binomial = Underflow THEN Panic
           ELSE IF binomial > coord
             THEN LET e1 == [ep EXCEPT ![i + 1] = 8 + k]
                  IN  IF k = 0 THEN Ok(e1) ELSE UD1SetLoop(e1, coord, k - 1, i - 1)
             ELSE UD1SetLoop(ep, coord - binomial, k, i - 1)

\* Every UR edge, in slot order, is replaced by the next edge of the solved
\* edge permutation (filter e == UR, zip with solved_ep).
UD1Fill(ep) ==
  [k \in Slots(12) |->
     IF ep[k] = 0
       THEN At(SolvedEP, Cardinality({j \in 1 .. k - 1 : ep[j] = 0}))
       ELSE ep[k]]

UD1Coord_set_coord(c, coord) ==
  LET r == UD1SetLoop(Fill(12, 0), coord, 3, 11)
  IN  IF r.panic THEN Panic
      ELSE VerifyUnwrap(FixParity([c EXCEPT !.ep = UD1Fill(r.val)]))

\* UD1Coord::get_coord, the loop `for i in (0..12).rev()` from slot i down.
RECURSIVE UD1GetLoop(_, _, _, _)
UD1GetLoop(ep, coord, k, i) ==
  IF i < 0 THEN coord
  ELSE IF At(ep, i) < 8
    THEN UD1GetLoop(ep, coord + choose(i, k), k, i - 1)
    ELSE IF k = 0 THEN coord ELSE UD1GetLoop(ep, coord, k - 1, i - 1)

UD1Coord_get_coord(c) == UD1GetLoop(c.ep, 0, 3, 11)

\* (!val).trailing_zeros() of a u8 given as the set of its bits set: the
\* lowest clear bit from bit b up, 8 when every bit is set.
RECURSIVE LowestZeroFrom(_, _)
LowestZeroFrom(val, b) ==
  IF b > 7 THEN 8 ELSE IF b \notin val THEN b ELSE LowestZeroFrom(val, b + 1)

\* fn get_nth_zero: n times `val |= val + 1` (the lowest clear bit is set; at
\* 255 the wrapped sum changes nothing), then the lowest clear bit.
RECURSIVE get_nth_zero(_, _)
get_nth_zero(val, n) ==
  IF n = 0 \/ val = 0 .. 7 THEN LowestZeroFrom(val, 0)
  ELSE get_nth_zero(val \cup ({LowestZeroFrom(val, 0)} \cap (0 .. 7)), n - 1)

\* fn set_perm_coord: the loop over (i, n) in (0..len).rev() zipped with the
\* factorial digits of coord; j counts the digits taken, val is what the
\* digit iterator has left. The result is the permutation (slot i, from 0,
\* holds len - 1 - bit_n) in Ok, or Panic (a bit past the u8, an index below 0:
\* the arithmetic overflow of a build with overflow checks, as the tests are).
\* The digit reaches get_nth_zero as `n as u8`, its low 8 bits.
RECURSIVE SetPermLoop(_, _, _, _, _)
SetPermLoop(perm, len, val, used, j) ==
  IF j = len THEN Ok(perm)
  ELSE LET base == factorial(len - 1 - j)
           n == val \div base
           bit_n == get_nth_zero(used, n % 256)
           i == len - 1 - j
       IN  IF bit_n > 7 \/ bit_n > len - 1 THEN Panic
           ELSE SetPermLoop([perm EXCEPT ![i + 1] = len - 1 - bit_n], len,
                            val % base, used \cup {bit_n}, j + 1)

set_perm_coord(perm, coord) == SetPermLoop(perm, Len(perm), coord, {}, 0)

\* fn num_inversions_of: the elements before slot i greater than perm[i].
num_inversions_of(perm, i) ==
  IF Len(perm) <= i THEN 0
  ELSE Cardinality({j \in 0 .. i - 1 : At(perm, j) > At(perm, i)})

\* fn get_perm_coord: the sum over i of num_inversions_of(perm, i) * i!
RECURSIVE PermCoordSum(_, _)
PermCoordSum(perm, n) ==
  IF n = 0 THEN 0
  ELSE (num_inversions_of(perm, n - 1) * factorial(n - 1)) + PermCoordSum(perm, n - 1)

\* The sum with the inversions counted after slot i instead of before it.
get_perm_coord_After(perm) ==
  LET inv(i) == Cardinality({j \in i + 1 .. Len(perm) - 1 : At(perm, j) < At(perm, i)})
      sum[n \in 0 .. Len(perm)] ==
        IF n = 0 THEN 0 ELSE (inv(n - 1) * factorial(n - 1)) + sum[n - 1]
  IN  sum[Len(perm)]

get_perm_coord(perm) == PermCoordSum(perm, Len(perm))

\* EPCoord::set_coord: the permutation of ep[0..8], then the parity repair.
EPCoord_set_coord(c, ep) ==
  LET r == set_perm_coord(SubSeq(c.ep, 1, 8), ep)
  IN  IF r.panic THEN Panic
      ELSE VerifyUnwrap(FixParity([c EXCEPT !.ep = r.val \o SubSeq(c.ep, 9, 12)]))

\* EPCoord::get_coord
EPCoord_get_coord(c) == get_perm_coord(SubSeq(c.ep, 1, 8))

\* CPCoord and UD2Coord are named by phase1.rs and lib.rs but are not in
\* transition_table.rs. They are modelled on their description: the scheme of
\* EPCoord on the 8 corners, and on the 4 E-slice edges ep[8..12]. The parity
\* repair of CPCoord cannot touch the corners it encodes: it swaps two edges.
CP_NUM_ELEMS == 40320
UD2_NUM_ELEMS == 24

CPCoord_set_coord(c, cp) ==
  LET r == set_perm_coord(c.cp, cp)
  IN  IF r.panic THEN Panic
      ELSE LET c1 == [c EXCEPT !.cp = r.val]
           IN  VerifyUnwrap(IF has_valid_parity(c1) THEN c1
                            ELSE [c1 EXCEPT !.ep = [c.ep EXCEPT ![1] = c.ep[2],
                                                                ![2] = c.ep[1]]])

CPCoord_get_coord(c) == get_perm_coord(c.cp)

UD2Coord_set_coord(c, ud2) ==
  LET r == set_perm_coord(SubSeq(c.ep, 9, 12), ud2)
  IN  IF r.panic THEN Panic
      ELSE VerifyUnwrap(FixParity(
             [c EXCEPT !.ep = SubSeq(c.ep, 1, 8) \o [k \in 1 .. 4 |-> 8 + r.val[k]]]))

UD2Coord_get_coord(c) == get_perm_coord(SubSeq(c.ep, 9, 12))

\* trait Coord: the encoders, and the dispatch on the encoder.
Encoders == {"EO", "CO", "UD1", "EP", "CP", "UD2"}

NUM_ELEMS(e) ==
  CASE e = "EO" -> EO_NUM_ELEMS [] e = "CO" -> CO_NUM_ELEMS
    [] e = "UD1" -> UD1_NUM_ELEMS [] e = "EP" -> EP_NUM_ELEMS
    [] e = "CP" -> CP_NUM_ELEMS [] e = "UD2" -> UD2_NUM_ELEMS

set_coord(e, c, i) ==
  CASE e = "EO" -> EOCoord_set_coord(c, i) [] e = "CO" -> COCoord_set_coord(c, i)
    [] e = "UD1" -> UD1Coord_set_coord(c, i) [] e = "EP" -> EPCoord_set_coord(c, i)
    [] e = "CP" -> CPCoord_set_coord(c, i) [] e = "UD2" -> UD2Coord_set_coord(c, i)

get_coord(e, c) ==
  CASE e = "EO" -> EOCoord_get_coord(c) [] e = "CO" -> COCoord_get_coord(c)
    [] e = "UD1" -> UD1Coord_get_coord(c) [] e = "EP" -> EPCoord_get_coord(c)
    [] e = "CP" -> CPCoord_get_coord(c) [] e = "UD2" -> UD2Coord_get_coord(c)

-----------------------------------------------------------------------------
(* kociemba/src/pruning_table.rs *)

\* The faces expanded in the order of the enum Face.
FaceOrder_EnumOrder == <<"U", "R", "F", "D", "B", "L">>

\* The order in which the faces are expanded (pruning_table.rs:17, and the
\* same array in phase0.rs:125 and phase1.rs:105).
FaceOrder == <<"U", "D", "F", "B", "R", "L">>

\* trans_table[coord][usize::from(f)]
Step(t, coord, f) == At(At(t, coord), FaceAsUsize(f))

\* A branch that stops at the first visit of a coordinate, whatever its depth.
PruneCut_FirstVisitOnly(table, coord, max_depth, depth) ==
  depth = max_depth \/ At(table, coord) < Len(table)

\* init_prune_table_inner, the test that ends the branch: max_depth is
\* reached, or the coordinate was already reached at a lower or equal depth.
PruneCut(table, coord, max_depth, depth) ==
  depth = max_depth \/ At(table, coord) <= depth

\* A call of init_prune_table_inner: its arguments coord and depth, where it
\* stands (pc), and its loop variables: the face (fi, from 0, in FaceOrder),
\* the turn (ti, 0 .. 2) and new_coord (nc).
PruneFrame(coord, depth) ==
  [coord |-> coord, depth |-> depth, pc |-> "entry", fi |-> 0, ti |-> 0, nc |-> coord]

-----------------------------------------------------------------------------
(* The cubes the tests build with Cube::new, which verifies them:           *)
(* cube/tests/cube.rs (move_u .. move_l) and transition_table.rs (eo_coord, *)
(* co_coord).                                                               *)

TestCubes ==
  { solved,
    MkCube(Arr(<<3, 0, 1, 2, 4, 5, 6, 7>>), Fill(8, 0),
           Arr(<<3, 0, 1, 2, 4, 5, 6, 7, 8, 9, 10, 11>>), Fill(12, 0)),
    MkCube(Arr(<<4, 1, 2, 0, 7, 5, 6, 3>>), Arr(<<1, 0, 0, 2, 2, 0, 0, 1>>),
           Arr(<<8, 1, 2, 3, 11, 5, 6, 7, 4, 9, 10, 0>>), Fill(12, 0)),
    MkCube(Arr(<<1, 5, 2, 3, 0, 4, 6, 7>>), Arr(<<2, 1, 0, 0, 1, 2, 0, 0>>),
           Arr(<<0, 9, 2, 3, 4, 8, 6, 7, 1, 5, 10, 11>>),
           Arr(<<0, 1, 0, 0, 0, 1, 0, 0, 1, 1, 0, 0>>)),
    MkCube(Arr(<<0, 1, 2, 3, 5, 6, 7, 4>>), Fill(8, 0),
           Arr(<<0, 1, 2, 3, 5, 6, 7, 4, 8, 9, 10, 11>>), Fill(12, 0)),
    MkCube(Arr(<<0, 1, 3, 7, 4, 5, 2, 6>>), Arr(<<0, 0, 2, 1, 0, 0, 1, 2>>),
           Arr(<<0, 1, 2, 11, 4, 5, 6, 10, 8, 9, 3, 7>>),
           Arr(<<0, 0, 0, 1, 0, 0, 0, 1, 0, 0, 1, 1>>)),
    MkCube(Arr(<<0, 2, 6, 3, 4, 1, 5, 7>>), Arr(<<0, 2, 1, 0, 0, 1, 2, 0>>),
           Arr(<<0, 1, 10, 3, 4, 5, 9, 7, 8, 2, 6, 11>>), Fill(12, 0)),
    MkCube(SolvedCP, Fill(8, 0), SolvedEP, Fill(12, 1)),
    MkCube(SolvedCP, Arr(<<2, 2, 2, 2, 2, 2, 2, 1>>), SolvedEP, Fill(12, 0)) }

-----------------------------------------------------------------------------
(* SpecCube: a caller applies moves to a solvable cube. *)

\* The longest move sequence a run applies.
MaxMoves == 4

InitCube ==
  /\ start \in TestCubes
  /\ cube = start
  /\ prev = start
  /\ moves = <<>>
  /\ panicked = FALSE
  /\ res = "none"
  /\ IdleCoord
  /\ IdlePrune
  /\ IdleSearch

\* cube = cube.apply_move(Move(f, q)); a panic aborts the run.
ApplyMove(f, q) ==
  /\ ~panicked
  /\ Len(moves) < MaxMoves
  /\ LET r == apply_move(cube, Move(f, q))
     IN  /\ panicked' = r.panic
         /\ cube' = IF r.panic THEN cube ELSE r.val
  /\ prev' = cube
  /\ moves' = Append(moves, Move(f, q))
  /\ UNCHANGED <<start, res, coordVars, pruneVars, searchVars>>

NextCube == \E f \in Faces, q \in 1 .. 3 : ApplyMove(f, q)

SpecCube == InitCube /\ [][NextCube]_vars

-----------------------------------------------------------------------------
(* Claims about apply_move. *)

\* One composition as the claim states it: every offset is read at the
\* destination slot i.
C4_Compose(c, mp) ==
  MkCube([k \in Slots(8) |-> At(c.cp, At(mp.cp, k - 1))],
         [k \in Slots(8) |-> (At(c.co, At(mp.cp, k - 1)) + At(mp.co, k - 1)) % 3],
         [k \in Slots(12) |-> At(c.ep, At(mp.ep, k - 1))],
         [k \in Slots(12) |-> Xor(At(c.eo, At(mp.ep, k - 1)), At(mp.eo, k - 1))])

RECURSIVE C4_ComposeTimes(_, _, _)
C4_ComposeTimes(c, mp, q) ==
  IF q = 0 THEN c ELSE C4_ComposeTimes(C4_Compose(c, mp), mp, q - 1)

LastMove == moves[Len(moves)]

\* C4: apply_move(Move(face, q)) returns the cube composed q times with the
\* face's quarter-turn permutation, for each of the six faces and q in 1..3.
C4_ApplyMoveComposesQTimes ==
  moves # <<>> =>
    /\ ~panicked
    /\ FaceAsUsize(LastMove.face) < Len(MOVE_PERMS)
    /\ cube = C4_ComposeTimes(prev, At(MOVE_PERMS, FaceAsUsize(LastMove.face)),
                              LastMove.count)

\* C5: apply_move on a solvable cube never panics, and its result verifies.
C5_MoveKeepsSolvable ==
  (moves # <<>> /\ verify(prev) = "Ok") =>
    (~panicked /\ verify(cube) = "Ok")

\* C6: a quarter turn of any face applied four times in succession gives the
\* starting cube back (and each of the four turns yields a cube).
C6_FourQuarterTurnsIdentity ==
  (moves # <<>> /\ \A k \in 1 .. Len(moves) : moves[k] = Move(moves[1].face, 1)) =>
    (~panicked /\ (Len(moves) = 4 => cube = start))

-----------------------------------------------------------------------------
(* SpecVerify: a caller builds a cube with new_unchecked and verifies it. *)

\* The arrays new_unchecked is given: valid ones, and ones that break one
\* condition of verify (cube/tests/cube.rs, invalid_cube, and variations).
UncheckedEP ==
  { SolvedEP,
    Arr(<<1, 0, 2, 3, 4, 5, 6, 7, 8, 9, 10, 11>>),
    Arr(<<1, 2, 0, 3, 4, 5, 6, 7, 8, 9, 10, 11>>),
    Fill(12, 1) }

UncheckedEO ==
  { Fill(12, 0),
    Arr(<<1, 0, 0, 0, 0, 0, 0, 0, 0, 0, 0, 0>>),
    Arr(<<3, 0, 0, 0, 0, 0, 0, 0, 0, 0, 0, 0>>),
    Arr(<<2, 0, 0, 0, 0, 0, 0, 0, 0, 0, 0, 0>>),
    Arr(<<1, 0, 0, 0, 0, 0, 0, 0, 0, 0, 0, 1>>) }

UncheckedCP ==
  { SolvedCP,
    Arr(<<1, 0, 2, 3, 4, 5, 6, 7>>),
    Fill(8, 0) }

UncheckedCO ==
  { Fill(8, 0),
    Arr(<<1, 0, 0, 0, 0, 0, 0, 0>>),
    Arr(<<3, 0, 0, 0, 0, 0, 0, 0>>),
    Arr(<<1, 2, 0, 0, 0, 0, 0, 0>>),
    Arr(<<1, 1, 0, 0, 0, 0, 0, 1>>) }

InitVerify ==
  /\ \E cp \in UncheckedCP, co \in UncheckedCO, ep \in UncheckedEP,
        eo \in UncheckedEO : cube = new_unchecked(cp, co, ep, eo)
  /\ prev = cube
  /\ start = cube
  /\ moves = <<>>
  /\ panicked = FALSE
  /\ res = "none"
  /\ IdleCoord
  /\ IdlePrune
  /\ IdleSearch

\* res = cube.verify()
Verify ==
  /\ res = "none"
  /\ res' = verify(cube)
  /\ UNCHANGED <<cube, prev, start, moves, panicked, coordVars, pruneVars, searchVars>>

NextVerify == Verify

SpecVerify == InitVerify /\ [][NextVerify]_vars

\* The five conditions of a solvable cube, each on its own.
IsPermutation(arr, len) ==
  \A v \in 0 .. len - 1 :
    Cardinality({i \in 0 .. len - 1 : At(arr, i) = v}) = 1

CondEP(c) == IsPermutation(c.ep, 12)
CondEO(c) == (\A i \in 0 .. 11 : At(c.eo, i) <= 1) /\ SumTo(c.eo, 12) % 2 = 0
CondCP(c) == IsPermutation(c.cp, 8)
CondCO(c) == (\A i \in 0 .. 7 : At(c.co, i) <= 2) /\ SumTo(c.co, 8) % 3 = 0
CondParity(c) == (num_inversions(c.cp, 8) % 2) = (num_inversions(c.ep, 12) % 2)

FirstViolated(c) ==
  CASE ~CondEP(c) -> "ErrEP"
    [] CondEP(c) /\ ~CondEO(c) -> "ErrEO"
    [] CondEP(c) /\ CondEO(c) /\ ~CondCP(c) -> "ErrCP"
    [] CondEP(c) /\ CondEO(c) /\ CondCP(c) /\ ~CondCO(c) -> "ErrCO"
    [] OTHER -> IF CondParity(c) THEN "Ok" ELSE "ErrParity"

\* C7: verify returns Ok exactly when the five conditions hold, and otherwise
\* the error of the first violated condition in the order ErrEP, ErrEO, ErrCP,
\* ErrCO, ErrParity.
C7_VerifyReportsFirstViolation ==
  res # "none" =>
    /\ res = FirstViolated(cube)
    /\ (res = "Ok") <=>
         (CondEP(cube) /\ CondEO(cube) /\ CondCP(cube) /\ CondCO(cube)
            /\ CondParity(cube))

\* A cube that breaks two conditions (an edge orientation of 2, a repeated
\* corner) and is reported with the error of the first of them.
C7_Witness ==
  /\ res = "ErrEO"
  /\ At(cube.eo, 0) = 2
  /\ ~CondCP(cube)

-----------------------------------------------------------------------------
(* SpecCoord: exhaustive_coord_check, for every encoder and every           *)
(* coordinate: set_coord on a solved cube, then get_coord.                  *)

InitCoord ==
  /\ enc \in Encoders
  /\ cin \in 0 .. NUM_ELEMS(enc) - 1
  /\ cout = 0
  /\ trow = Fill(6, 0)
  /\ cube = solved
  /\ prev = solved
  /\ start = solved
  /\ moves = <<>>
  /\ panicked = FALSE
  /\ res = "none"
  /\ IdlePrune
  /\ IdleSearch

\* T::set_coord(&mut c, i)
SetCoord ==
  /\ res = "none"
  /\ LET r == set_coord(enc, cube, cin)
     IN  /\ panicked' = r.panic
         /\ cube' = IF r.panic THEN cube ELSE r.val
  /\ res' = "set"
  /\ UNCHANGED <<prev, start, moves, enc, cin, cout, trow, pruneVars, searchVars>>

\* T::get_coord(&c)
GetCoord ==
  /\ res = "set"
  /\ ~panicked
  /\ cout' = get_coord(enc, cube)
  /\ res' = "got"
  /\ UNCHANGED <<cube, prev, start, moves, panicked, enc, cin, trow, pruneVars, searchVars>>

\* Coord::GROUP
GROUP(e) == IF e \in {"EO", "CO", "UD1"} THEN "G0" ELSE "G1"

\* turn_counts of init_transition_table
turn_counts(e) ==
  IF GROUP(e) = "G0" THEN <<1, 1, 1, 1, 1, 1>> ELSE <<1, 1, 2, 2, 2, 2>>

\* The inner loop of init_transition_table from its k-th pass on, over the
\* faces U, D, F, B, R, L: the cube c of the row is moved, the coordinate of
\* the result is read, checked and stored at the index of the face.
RECURSIVE TableRowLoop(_, _, _, _)
TableRowLoop(e, c, k, row) ==
  IF k > Len(FaceOrder) THEN Ok(row)
  ELSE LET f == FaceOrder[k]
           nc == apply_move(c, Move(f, turn_counts(e)[k]))
       IN  IF nc.panic THEN Panic
           ELSE LET coord == get_coord(e, nc.val)
                IN  IF ~(coord < NUM_ELEMS(e)) THEN Panic
                    ELSE TableRowLoop(e, c, k + 1,
                                      [row EXCEPT ![FaceAsUsize(f) + 1] = coord])

\* The first pass (i = 0) of the outer loop of init_transition_table, after
\* its T::set_coord(&mut c, 0): the row v[0] is filled. The passes after it
\* are made only if this one completes.
TableRow ==
  /\ res = "set"
  /\ ~panicked
  /\ cin = 0
  /\ LET r == TableRowLoop(enc, cube, 1, trow)
     IN  /\ panicked' = r.panic
         /\ trow' = IF r.panic THEN trow ELSE r.val
  /\ res' = "row"
  /\ UNCHANGED <<cube, prev, start, moves, enc, cin, cout, pruneVars, searchVars>>

NextCoord == SetCoord \/ GetCoord \/ TableRow

SpecCoord == InitCoord /\ [][NextCoord]_vars

\* C8: for every encoder and every i in [0, N), set_coord(i) on a solved cube
\* returns normally and get_coord on the result is i.
C8_RoundTrip ==
  /\ res = "set" => ~panicked
  /\ res = "got" => cout = cin

\* The example of the documentation of UD1Coord::set_coord: coordinate 321
\* puts the slice edges in the slots 2, 5, 7 and 9, and is read back.
C8_Witness ==
  /\ res = "got"
  /\ enc = "UD1"
  /\ cin = 321
  /\ {i \in 0 .. 11 : At(cube.ep, i) >= 8} = {2, 5, 7, 9}
  /\ cout = 321

-----------------------------------------------------------------------------
(* SpecPrune: init_prune_table on a transition table.                       *)
(*                                                                          *)
(* A transition table holds, per coordinate and face, the coordinate after  *)
(* one turn of the face (init_transition_table): each face acts on the      *)
(* coordinates as a permutation whose fourth power is the identity. The     *)
(* tables here are of that kind, on PruneCoords coordinates.                *)


\* The largest max_depth a table is built with; table_size is above it, as
\* it is for the six tables of the crate (pruning_table.rs:44-72).
MaxPruneDepth == 3

\* Actions of a face on the coordinates 0 .. 5: the identity, the 4-cycle
\* (0 1 2 3), and the swaps (3 4), (4 5), (0 5)(1 4).
PermId == Arr(<<0, 1, 2, 3, 4, 5>>)
PermCycle == Arr(<<1, 2, 3, 0, 4, 5>>)
PermSwap34 == Arr(<<0, 1, 2, 4, 3, 5>>)
PermSwap45 == Arr(<<0, 1, 2, 3, 5, 4>>)
PermSwap05 == Arr(<<5, 4, 2, 3, 1, 0>>)

\* The 4-cycle (0 3 2 1), the inverse of PermCycle.
PermCycleBack == Arr(<<3, 0, 1, 2, 4, 5>>)

\* The number of coordinates of the small tables (table_size).
PruneCoords == Len(PermId)

\* The table in which each face f acts as act[f].
TableOf(act) ==
  [c \in Slots(PruneCoords) |->
     [k \in Slots(6) |->
        At(act[CHOOSE f \in Faces : FaceAsUsize(f) = k - 1], c - 1)]]

PruneTables ==
  { TableOf([U |-> u, D |-> d, F |-> f, B |-> b, R |-> r, L |-> l]) :
      u \in {PermId, PermCycle, PermSwap34},
      d \in {PermId, PermSwap45},
      f \in {PermId, PermCycle, PermSwap34},
      b \in {PermId, PermSwap05},
      r \in {PermId, PermSwap45, PermSwap34},
      l \in {PermId, PermCycle} }

\* init_prune_table: the table filled with table_size, and the first call
\* init_prune_table_inner(0, .., 0).
InitPrune ==
  /\ ttab \in PruneTables
  /\ pmax \in 1 .. MaxPruneDepth
  /\ ptable = Fill(Len(ttab), Len(ttab))
  /\ pstack = <<PruneFrame(0, 0)>>
  /\ cube = solved /\ prev = solved /\ start = solved /\ moves = <<>>
  /\ panicked = FALSE
  /\ res = "none"
  /\ IdleCoord
  /\ IdleSearch

PruneTop == pstack[Len(pstack)]

PrunePop == SubSeq(pstack, 1, Len(pstack) - 1)

\* The entry of init_prune_table_inner: return, or store the depth.
PruneEnter ==
  /\ pstack # <<>>
  /\ PruneTop.pc = "entry"
  /\ IF PruneCut(ptable, PruneTop.coord, pmax, PruneTop.depth)
       THEN /\ pstack' = PrunePop
            /\ UNCHANGED ptable
       ELSE /\ ptable' = [ptable EXCEPT ![PruneTop.coord + 1] = PruneTop.depth]
            /\ pstack' = [pstack EXCEPT ![Len(pstack)].pc = "loop"]
  /\ UNCHANGED <<ttab, pmax, cubeVars, coordVars, searchVars>>

\* One pass of the inner loop `for _ in 0..3`: new_coord is advanced by one
\* turn of the face and init_prune_table_inner is called on it; after the
\* last face the call returns.
PruneLoop ==
  /\ pstack # <<>>
  /\ PruneTop.pc = "loop"
  /\ IF PruneTop.fi = Len(FaceOrder)
       THEN pstack' = PrunePop
       ELSE LET fr == PruneTop
                from == IF fr.ti = 0 THEN fr.coord ELSE fr.nc
                new_coord == Step(ttab, from, FaceOrder[fr.fi + 1])
                adv == [fr EXCEPT !.nc = new_coord,
                                  !.ti = IF fr.ti = 2 THEN 0 ELSE fr.ti + 1,
                                  !.fi = IF fr.ti = 2 THEN fr.fi + 1 ELSE fr.fi]
            IN  pstack' = Append([pstack EXCEPT ![Len(pstack)] = adv],
                                 PruneFrame(new_coord, fr.depth + 1))
  /\ UNCHANGED <<ttab, pmax, ptable, cubeVars, coordVars, searchVars>>

NextPrune == PruneEnter \/ PruneLoop

SpecPrune == InitPrune /\ [][NextPrune]_vars

\* init_prune_table has returned.
PruneDone == ttab # <<>> /\ pstack = <<>>

\* The coordinates from which 0 is reached in at most k moves, a move being
\* 1, 2 or 3 successive turns of one face.
RECURSIVE Within(_, _)
Within(t, k) ==
  IF k = 0 THEN {0}
  ELSE LET near == Within(t, k - 1)
       IN  near \cup
           {c \in 0 .. Len(t) - 1 :
              \E f \in Faces :
                \/ Step(t, c, f) \in near
                \/ Step(t, Step(t, c, f), f) \in near
                \/ Step(t, Step(t, Step(t, c, f), f), f) \in near}

\* The true distance d(c), Len(t) standing for "0 is not reached from c".
Distance(t, c) ==
  IF c \notin Within(t, Len(t)) THEN Len(t)
  ELSE CHOOSE k \in 0 .. Len(t) : c \in Within(t, k) /\ (k = 0 \/ c \notin Within(t, k - 1))

\* C9: after init_prune_table, P[0] = 0; every entry that is at most
\* D_max - 1 is the true distance of its coordinate; and the table is the one
\* a breadth-first relaxation bounded by D_max stores (the distance where it
\* is below D_max, the initial value elsewhere), whatever the face order.
C9_PruneTableExact ==
  PruneDone =>
    /\ At(ptable, 0) = 0
    /\ \A c \in 0 .. Len(ttab) - 1 :
         /\ At(ptable, c) <= pmax - 1 => At(ptable, c) = Distance(ttab, c)
         /\ At(ptable, c) = IF Distance(ttab, c) < pmax THEN Distance(ttab, c)
                                                       ELSE Len(ttab)

\* A finished table with an entry at D_max - 1 = 2 and a coordinate at
\* distance 3 that keeps the initial value.
C9_Witness ==
  /\ PruneDone
  /\ pmax = 3
  /\ \E c \in 0 .. Len(ttab) - 1 : At(ptable, c) = 2
  /\ \E c \in 0 .. Len(ttab) - 1 :
       Distance(ttab, c) = 3 /\ At(ptable, c) = Len(ttab)

-----------------------------------------------------------------------------
(* kociemba/src/phase0.rs and kociemba/src/phase1.rs.                       *)
(*                                                                          *)
(* A coordinate is the triple <<eo, co, ud1>> of Phase0Coord, or            *)
(* <<ep, cp, ud2>> of Phase1Coord; the tables are [t |-> the three          *)
(* transition tables, p |-> the three pruning tables], in the same order.   *)

\* Face::is_opposite: U/D, F/B and R/L are the pairs of opposite faces.
is_opposite(f1, f2) ==
  {f1, f2} \in {{"U", "D"}, {"F", "B"}, {"R", "L"}}

\* Phase0Coord::is_solved, Phase1Coord::is_solved
is_solved(coord) == coord[1] = 0 /\ coord[2] = 0 /\ coord[3] = 0

\* Phase0Tables::transition, Phase1Tables::transition
transition(tb, coord, f) ==
  <<Step(tb.t[1], coord[1], f), Step(tb.t[2], coord[2], f), Step(tb.t[3], coord[3], f)>>

Max(a, b) == IF a >= b THEN a ELSE b

\* A prune_depth that adds the three entries up.
prune_depth_Sum(tb, coord) ==
  At(tb.p[1], coord[1]) + At(tb.p[2], coord[2]) + At(tb.p[3], coord[3])

\* Phase0Tables::prune_depth, Phase1Tables::prune_depth
prune_depth(tb, coord) ==
  Max(At(tb.p[1], coord[1]), Max(At(tb.p[2], coord[2]), At(tb.p[3], coord[3])))

\* A solution_check of phase0.rs that looks at the last move only.
solution_check_LastOnly(ph, sol) ==
  LET len == Len(sol)
  IN  IF ph = 1 THEN TRUE
      ELSE IF len > 0 /\ sol[len].face \in {"U", "D"} THEN FALSE
      ELSE IF len > 0 /\ sol[len].count = 2 THEN FALSE
      ELSE TRUE

\* solution_check of phase0.rs, and of phase1.rs, which accepts everything.
solution_check(ph, sol) ==
  LET len == Len(sol)
  IN  IF ph = 1 THEN TRUE
      ELSE IF len > 0 /\ sol[len].face \in {"U", "D"} THEN FALSE
      ELSE IF len > 0 /\ sol[len].count = 2 THEN FALSE
      ELSE IF len > 1 /\ sol[len - 1].count = 2
                      /\ is_opposite(sol[len - 1].face, sol[len].face) THEN FALSE
      ELSE TRUE

\* A skip_face without its second test, the one for A B A.
skip_face_LastOnly(sol, face) ==
  Len(sol) > 0 /\ sol[Len(sol)].face = face

\* skip_face, the same in both files.
skip_face(sol, face) ==
  LET len == Len(sol)
  IN  IF len > 0 /\ sol[len].face = face THEN TRUE
      ELSE IF len > 1 /\ is_opposite(sol[len - 1].face, sol[len].face)
                      /\ sol[len - 1].face = face THEN TRUE
      ELSE FALSE

\* An inner loop that runs over 0..3 for every face in both phases.
move_range_AllFaces(ph, f) == <<0, 1, 2>>

\* The values of i the inner loop takes: 0..3 in phase0 and for U and D in
\* phase1, 1..2 for the other faces in phase1.
move_range(ph, f) ==
  IF ph = 0 \/ f \in {"U", "D"} THEN <<0, 1, 2>> ELSE <<1>>

\* A search that cuts a branch whose pruning depth equals depth_remaining.
Pruned_AtEqual(tb, coord, depth_remaining) ==
  depth_remaining <= prune_depth(tb, coord)

\* `if depth_remaining < tables.prune_depth(coord) { return false; }`
Pruned(tb, coord, depth_remaining) ==
  depth_remaining < prune_depth(tb, coord)

\* A failed branch that leaves its move on the vector.
VecPop_Keep(v) == v

\* solution.pop()
VecPop(v) == SubSeq(v, 1, Len(v) - 1)

\* A call of phase0 / phase1: its arguments coord and depth_remaining, where
\* it stands (pc), and its loop variables: the face (fi, from 0, in
\* FaceOrder), the passes of the inner loop made for it (ti), and next.
SearchFrame(coord, depth_remaining) ==
  [coord |-> coord, depth |-> depth_remaining, pc |-> "entry",
   fi |-> 0, ti |-> 0, next |-> coord]

\* check_is_solved of the tests of phase1.rs: the fold of apply_move over
\* the moves of a solution.
RECURSIVE FoldMoves(_, _)
FoldMoves(c, ms) ==
  IF ms = <<>> THEN Ok(c)
  ELSE LET r == apply_move(c, Head(ms))
       IN  IF r.panic THEN Panic ELSE FoldMoves(r.val, Tail(ms))

-----------------------------------------------------------------------------
(* SpecSearch: a call of phase0 or phase1.                                  *)
(*                                                                          *)
(* The tables are three transition tables of the kind of SpecPrune, each    *)
(* with the pruning table init_prune_table builds from it, for a max_depth  *)
(* above every distance or for one that leaves the initial value on the     *)
(* coordinates at that distance or more.                                    *)

\* The largest depth_remaining of the outermost call.
MaxDepth == 2

\* The number of moves that scramble the zero coordinate into a start.
ScrambleLen == 2

\* Three tables in which U and D keep the coordinate 0 and a quarter turn of
\* F, B, R or L leaves it, as in phase 0.
SearchTransA ==
  << TableOf([U |-> PermId, D |-> PermId, F |-> PermCycle,
              B |-> PermSwap05, R |-> PermId, L |-> PermId]),
     TableOf([U |-> PermSwap34, D |-> PermSwap45, F |-> PermCycle,
              B |-> PermId, R |-> PermSwap05, L |-> PermCycle]),
     TableOf([U |-> PermId, D |-> PermId, F |-> PermSwap05,
              B |-> PermSwap34, R |-> PermSwap05, L |-> PermSwap34]) >>

\* Three tables in which F, B, R and L are their own inverses, as the
\* half-turn columns of phase 1 are.
SearchTransB ==
  << TableOf([U |-> PermCycle, D |-> PermSwap45, F |-> PermSwap05,
              B |-> PermSwap34, R |-> PermSwap34, L |-> PermId]),
     TableOf([U |-> PermCycle, D |-> PermId, F |-> PermSwap05,
              B |-> PermId, R |-> PermSwap45, L |-> PermSwap05]),
     TableOf([U |-> PermId, D |-> PermId, F |-> PermSwap05,
              B |-> PermSwap05, R |-> PermSwap34, L |-> PermSwap45]) >>

\* Three tables in which D undoes U, and F and B keep every coordinate.
SearchTransC ==
  << TableOf([U |-> PermCycle, D |-> PermCycleBack, F |-> PermId,
              B |-> PermId, R |-> PermSwap05, L |-> PermSwap34]),
     TableOf([U |-> PermId, D |-> PermId, F |-> PermId,
              B |-> PermId, R |-> PermSwap05, L |-> PermId]),
     TableOf([U |-> PermId, D |-> PermId, F |-> PermId,
              B |-> PermId, R |-> PermId, L |-> PermSwap45]) >>

\* The table init_prune_table(t, max_depth, t.len()) returns.
PruneTableOf(t, max_depth) ==
  [c \in Slots(Len(t)) |->
     IF Distance(t, c - 1) < max_depth THEN Distance(t, c - 1) ELSE Len(t)]

TablesOf(tr, max_depth) ==
  [t |-> tr,
   p |-> <<PruneTableOf(tr[1], max_depth), PruneTableOf(tr[2], max_depth),
           PruneTableOf(tr[3], max_depth)>>]

SearchTables ==
  { TablesOf(tr, d) : tr \in {SearchTransA, SearchTransB}, d \in {2, PruneCoords} }
    \cup {TablesOf(SearchTransC, 1)}

\* The coordinates k moves or fewer away from the zero triple.
RECURSIVE Scrambled(_, _)
Scrambled(tb, k) ==
  IF k = 0 THEN {<<0, 0, 0>>}
  ELSE LET near == Scrambled(tb, k - 1)
       IN  near \cup
           UNION { { transition(tb, c, f),
                     transition(tb, transition(tb, c, f), f),
                     transition(tb, transition(tb, transition(tb, c, f), f), f) } :
                   c \in near, f \in Faces }

\* The contents of the solution vector at the outermost call.
SearchPrefixes ==
  { <<>>,
    <<Move("U", 1)>>,
    <<Move("F", 2)>>,
    <<Move("R", 1), Move("L", 1)>>,
    <<Move("F", 2), Move("B", 3)>> }

InitSearch ==
  /\ phase \in {0, 1}
  /\ tabs \in SearchTables
  /\ coord0 \in Scrambled(tabs, ScrambleLen)
  /\ depth0 \in 0 .. MaxDepth
  /\ sol0 \in SearchPrefixes
  /\ solution = sol0
  /\ stack = <<SearchFrame(coord0, depth0)>>
  /\ ret = "none"
  /\ cube = solved /\ prev = solved /\ start = solved /\ moves = <<>>
  /\ panicked = FALSE
  /\ res = "none"
  /\ IdleCoord
  /\ IdlePrune

SearchTop == stack[Len(stack)]

\* A return that leaves the call on the stack.
SearchPop_Stay == stack

SearchPop == SubSeq(stack, 1, Len(stack) - 1)

BoolRet(b) == IF b THEN "true" ELSE "false"

\* An entry that decides as soon as the coordinate is the zero triple,
\* whatever depth_remaining is.
SearchEnter_AnyDepth ==
  /\ stack # <<>>
  /\ ret = "none"
  /\ SearchTop.pc = "entry"
  /\ IF SearchTop.depth = 0 \/ is_solved(SearchTop.coord)
       THEN /\ ret' = BoolRet(solution_check(phase, solution) /\ is_solved(SearchTop.coord))
            /\ stack' = SearchPop
       ELSE IF Pruned(tabs, SearchTop.coord, SearchTop.depth)
       THEN /\ ret' = "false"
            /\ stack' = SearchPop
       ELSE /\ ret' = ret
            /\ stack' = [stack EXCEPT ![Len(stack)].pc = "loop"]
  /\ UNCHANGED <<phase, tabs, coord0, depth0, sol0, solution>>
  /\ UNCHANGED <<cubeVars, coordVars, pruneVars>>

\* The entry of phase0 / phase1: the test at depth 0 and the pruning test.
SearchEnter ==
  /\ stack # <<>>
  /\ ret = "none"
  /\ SearchTop.pc = "entry"
  /\ IF SearchTop.depth = 0
       THEN /\ ret' = BoolRet(solution_check(phase, solution) /\ is_solved(SearchTop.coord))
            /\ stack' = SearchPop
       ELSE IF Pruned(tabs, SearchTop.coord, SearchTop.depth)
       THEN /\ ret' = "false"
            /\ stack' = SearchPop
       ELSE /\ ret' = ret
            /\ stack' = [stack EXCEPT ![Len(stack)].pc = "loop"]
  /\ UNCHANGED <<phase, tabs, coord0, depth0, sol0, solution>>
  /\ UNCHANGED <<cubeVars, coordVars, pruneVars>>

\* The loops of phase0 / phase1 up to the recursive call: past the last
\* face, return false; a face skip_face rejects is passed over; otherwise
\* next is advanced by one turn, the move is pushed and the call is made.
SearchLoop ==
  /\ stack # <<>>
  /\ ret = "none"
  /\ SearchTop.pc = "loop"
  /\ LET fr == SearchTop
         f == FaceOrder[fr.fi + 1]
     IN  IF fr.fi = Len(FaceOrder)
           THEN /\ ret' = "false"
                /\ stack' = SearchPop
                /\ UNCHANGED solution
           ELSE IF fr.ti = 0 /\ skip_face(solution, f)
           THEN /\ stack' = [stack EXCEPT ![Len(stack)].fi = fr.fi + 1]
                /\ UNCHANGED <<ret, solution>>
           ELSE LET i == move_range(phase, f)[fr.ti + 1]
                    next == transition(tabs, IF fr.ti = 0 THEN fr.coord ELSE fr.next, f)
                IN  /\ solution' = Append(solution, Move(f, i + 1))
                    /\ stack' = Append([stack EXCEPT ![Len(stack)].next = next,
                                                      ![Len(stack)].pc = "called"],
                                        SearchFrame(next, fr.depth - 1))
                    /\ UNCHANGED ret
  /\ UNCHANGED <<phase, tabs, coord0, depth0, sol0>>
  /\ UNCHANGED <<cubeVars, coordVars, pruneVars>>

\* The recursive call has returned: true is passed on; on false the move is
\* popped and the loops go on.
SearchReturn ==
  /\ stack # <<>>
  /\ ret # "none"
  /\ SearchTop.pc = "called"
  /\ LET fr == SearchTop
         last == fr.ti + 1 = Len(move_range(phase, FaceOrder[fr.fi + 1]))
     IN  IF ret = "true"
           THEN /\ stack' = SearchPop
                /\ UNCHANGED <<ret, solution>>
           ELSE /\ solution' = VecPop(solution)
                /\ ret' = "none"
                /\ stack' = [stack EXCEPT ![Len(stack)].pc = "loop",
                                           ![Len(stack)].ti = IF last THEN 0 ELSE fr.ti + 1,
                                           ![Len(stack)].fi = IF last THEN fr.fi + 1 ELSE fr.fi]
  /\ UNCHANGED <<phase, tabs, coord0, depth0, sol0>>
  /\ UNCHANGED <<cubeVars, coordVars, pruneVars>>

\* The outermost call has returned.
SearchReturned == stack = <<>> /\ ret # "none"

\* check_is_solved on the moves a search from an empty vector returned:
\* apply_move is folded over them. apply_move takes MOVE_PERMS[face] before
\* it reads the cube, so whether the fold panics is the same for every
\* start cube; it is run on the solved cube.
SearchFold ==
  /\ SearchReturned
  /\ ret = "true"
  /\ sol0 = <<>>
  /\ res = "none"
  /\ LET r == FoldMoves(cube, solution)
     IN  /\ panicked' = r.panic
         /\ cube' = IF r.panic THEN cube ELSE r.val
  /\ res' = "folded"
  /\ UNCHANGED <<prev, start, moves>>
  /\ UNCHANGED <<searchVars, coordVars, pruneVars>>

NextSearch == SearchEnter \/ SearchLoop \/ SearchReturn \/ SearchFold

SpecSearch == InitSearch /\ [][NextSearch]_vars

\* C1: when a call of phase0 or phase1 returns false, the solution vector is
\* the one of the call's entry: at the return of the outermost call it is
\* the initial vector, and at the return of an inner call it holds the
\* initial vector and the one move of each call still running.
C1_FalseLeavesSolution ==
  (stack = <<>> /\ ret = "false" => solution = sol0)
  /\ (ret = "false" =>
        /\ Len(solution) = Len(sol0) + Len(stack)
        /\ SubSeq(solution, 1, Len(sol0)) = sol0)

\* A search of depth 2 that is not pruned at its entry, starts from a vector
\* of two moves, pushes and pops, and returns false.
C1_Witness ==
  /\ SearchReturned
  /\ ret = "false"
  /\ depth0 = 2
  /\ Len(sol0) = 2
  /\ ~Pruned(tabs, coord0, depth0)

\* The number of table steps a move (f, k) stands for.
ReplaySteps(ph, m) ==
  IF ph = 0 \/ m.face \in {"U", "D"} THEN m.count ELSE 1

RECURSIVE Turn(_, _, _, _)
Turn(tb, coord, f, n) ==
  IF n = 0 THEN coord ELSE Turn(tb, transition(tb, coord, f), f, n - 1)

\* The coordinate after the moves ms, replayed on the tables from coord.
RECURSIVE Replay(_, _, _, _)
Replay(ph, tb, coord, ms) ==
  IF ms = <<>> THEN coord
  ELSE Replay(ph, tb, Turn(tb, coord, Head(ms).face, ReplaySteps(ph, Head(ms))), Tail(ms))

\* The moves a true search from an empty vector returned lead, replayed on
\* the tables, from the start coordinate to the zero triple.
C2_ReplayReachesZero ==
  (SearchReturned /\ ret = "true" /\ sol0 = <<>>) =>
    is_solved(Replay(phase, tabs, coord0, solution))

\* The fold of apply_move over the returned moves yields a cube.
C2_FoldYieldsCube == res = "folded" => ~panicked

\* C2: soundness of the search: the moves phase0 / phase1 return for an empty
\* initial vector, replayed on the tables, end at the zero triple, and folded
\* with apply_move over the start cube they give a cube (whose phase
\* coordinate is zero).
C2_SearchSound == C2_ReplayReachesZero /\ C2_FoldYieldsCube

\* Every entry of the pruning tables is a lower bound of the distance of its
\* coordinate, as the entries of a table built up to a max_depth above every
\* distance are.
Admissible(tb) ==
  \A j \in 1 .. 3 : \A c \in 0 .. Len(tb.t[j]) - 1 :
    At(tb.p[j], c) <= Distance(tb.t[j], c)

\* There are exactly d moves that lead from coord to the zero triple, each
\* on a face skip_face accepts after the moves before it (sol, then the
\* moves so far), the whole passing solution_check.
RECURSIVE ExistsExact(_, _, _, _, _)
ExistsExact(ph, tb, coord, d, sol) ==
  IF d = 0 THEN solution_check(ph, sol) /\ is_solved(coord)
  ELSE \E f \in Faces : \E k \in 1 .. 3 :
         /\ ~skip_face(sol, f)
         /\ ph = 1 /\ f \notin {"U", "D"} => k = 2
         /\ ExistsExact(ph, tb, Turn(tb, coord, f, ReplaySteps(ph, Move(f, k))),
                        d - 1, Append(sol, Move(f, k)))

\* The same with d moves or fewer.
ExistsWithin(ph, tb, coord, d, sol) ==
  \E n \in 0 .. d : ExistsExact(ph, tb, coord, n, sol)

\* The vector sol is pre followed by moves that satisfy the constraints of
\* the phase and lead from coord to the zero triple.
ValidFrom(ph, tb, coord, pre, sol) ==
  /\ Len(sol) >= Len(pre)
  /\ SubSeq(sol, 1, Len(pre)) = pre
  /\ \A j \in Len(pre) + 1 .. Len(sol) : ~skip_face(SubSeq(sol, 1, j - 1), sol[j].face)
  /\ solution_check(ph, sol)
  /\ is_solved(Replay(ph, tb, coord, SubSeq(sol, Len(pre) + 1, Len(sol))))

\* C3, as the code has it: with pruning tables that are lower bounds, phase0
\* returns true exactly when some sequence of exactly depth_remaining moves
\* reduces coord to the zero triple under the constraints of phase 0, and it
\* then has appended such a sequence of exactly depth_remaining moves.
C3_Phase0FindsExactDepth ==
  (SearchReturned /\ phase = 0 /\ Admissible(tabs)) =>
    /\ ret = "true" <=> ExistsExact(0, tabs, coord0, depth0, sol0)
    /\ ret = "true" =>
         /\ Len(solution) = Len(sol0) + depth0
         /\ ValidFrom(0, tabs, coord0, sol0, solution)

\* A true phase0 search of depth 2 from a coordinate that is not zero, on
\* admissible tables, from a vector that already holds a move.
C3_Witness ==
  /\ SearchReturned
  /\ phase = 0
  /\ Admissible(tabs)
  /\ ret = "true"
  /\ depth0 = 2
  /\ sol0 # <<>>
  /\ ~is_solved(coord0)

\* C3 as stated: phase0 returns true whenever a sequence of depth_remaining
\* moves or fewer reduces coord to the zero triple under the constraints.
C3_Phase0FindsWithinDepth ==
  (SearchReturned /\ phase = 0 /\ Admissible(tabs)
     /\ ExistsWithin(0, tabs, coord0, depth0, sol0)) =>
    ret = "true"

-----------------------------------------------------------------------------
(* The pruning tables of the crate, each built from its own transition      *)
(* table: get_co_prune_table(&get_co_transition_table()) and the like.      *)

\* C10: each of the six pruning tables is built from its own transition
\* table (and then holds no initial value and has the maximum 6, 7, 5, 13, 8,
\* 4): init_transition_table, which builds the transition table first, fills
\* its row 0 and goes on.
C10_TablesBuilt == res = "row" => ~panicked

-----------------------------------------------------------------------------
(* The shape of the solution vector during a search.                        *)

\* No two adjacent moves of v are on the same face.
NoAA(v) == \A j \in 1 .. Len(v) - 1 : v[j].face # v[j + 1].face

\* No three consecutive moves of v are on faces A, B, A with A, B opposite.
NoABA(v) ==
  \A j \in 1 .. Len(v) - 2 :
    ~(v[j].face = v[j + 2].face /\ is_opposite(v[j].face, v[j + 1].face))

\* C11: in every state of a search started with an empty solution vector (and
\* with any vector that has the property itself), the vector holds no two
\* adjacent moves on the same face and no three consecutive moves on faces
\* A, B, A with A and B opposite.
C11_NoRepeatedFace ==
  (stack # <<>> \/ ret # "none") /\ NoAA(sol0) /\ NoABA(sol0) =>
    NoAA(solution) /\ NoABA(solution)

\* A search from the empty vector that has pushed two moves on opposite
\* faces: the next face tried is the one skip_face rejects.
C11_Witness ==
  /\ sol0 = <<>>
  /\ stack # <<>>
  /\ Len(solution) = 2
  /\ is_opposite(solution[1].face, solution[2].face)

\* C12: when phase0 returns true and the solution vector is not empty, its
\* last move is not on U or D and is not a half turn, and with two moves or
\* more the last two are not (A, 2), (B, any) with A and B opposite; the moves
\* the vector held at the call's entry count as well.
C12_Phase0Ending ==
  (SearchReturned /\ phase = 0 /\ ret = "true" /\ solution # <<>>) =>
    LET len == Len(solution)
    IN  /\ solution[len].face \notin {"U", "D"}
        /\ solution[len].count # 2
        /\ len >= 2 =>
             ~(/\ solution[len - 1].count = 2
               /\ {solution[len - 1].face, solution[len].face}
                    \in {{"U", "D"}, {"F", "B"}, {"R", "L"}})

\* A true phase0 search whose vector, one move of the entry and one move
\* pushed, ends in a half turn followed by a move on another, not opposite,
\* face.
C12_Witness ==
  /\ SearchReturned
  /\ phase = 0
  /\ ret = "true"
  /\ sol0 = <<Move("F", 2)>>
  /\ Len(solution) = 2

\* The move the j-th call of the stack pushed before its recursive call.
PushedBy(j) == solution[Len(sol0) + j]

\* C13: every move phase1 has pushed on F, B, R or L has count 2 and one
\* application of the face's table entry behind it (next is one step from the
\* call's coordinate); a move on U or D has a count k in 1..3 and k
\* cumulative applications behind it.
C13_Phase1Moves ==
  phase = 1 =>
    \A j \in 1 .. Len(stack) :
      stack[j].pc = "called" =>
        LET m == PushedBy(j)
        IN  IF m.face \in {"F", "B", "R", "L"}
              THEN /\ m.count = 2
                   /\ stack[j].next = transition(tabs, stack[j].coord, m.face)
              ELSE /\ m.count \in 1 .. 3
                   /\ stack[j].next = Turn(tabs, stack[j].coord, m.face, m.count)

\* A phase1 search that has pushed the third turn of U and then a move on F.
C13_Witness ==
  /\ phase = 1
  /\ sol0 = <<>>
  /\ Len(stack) >= 2
  /\ stack[1].pc = "called" /\ stack[2].pc = "called"
  /\ PushedBy(1) = Move("U", 3)
  /\ PushedBy(2).face = "F"

\* The moves a call may push, in the order of the claim: faces U < D < F < B
\* < R < L, counts 1 < 2 < 3 within a face (in phase 1 the only count of F,
\* B, R, L is 2).
MovesInOrder(ph) ==
  LET of(f) == IF ph = 0 \/ f \in {"U", "D"}
                 THEN <<Move(f, 1), Move(f, 2), Move(f, 3)>>
                 ELSE <<Move(f, 2)>>
  IN  of("U") \o of("D") \o of("F") \o of("B") \o of("R") \o of("L")

\* m may follow sol and starts a sequence of exactly d moves from coord to the
\* zero triple that satisfies the constraints.
Extends(ph, tb, coord, d, sol, m) ==
  /\ ~skip_face(sol, m.face)
  /\ ExistsExact(ph, tb, Turn(tb, coord, m.face, ReplaySteps(ph, m)), d - 1, Append(sol, m))

\* sol followed by the first, in lexicographic order, of the sequences of
\* exactly d moves from coord to the zero triple that satisfy the
\* constraints; there is one.
RECURSIVE LexFirst(_, _, _, _, _)
LexFirst(ph, tb, coord, d, sol) ==
  IF d = 0 THEN sol
  ELSE LET ms == MovesInOrder(ph)
           n == CHOOSE j \in 1 .. Len(ms) :
                  /\ Extends(ph, tb, coord, d, sol, ms[j])
                  /\ \A h \in 1 .. j - 1 : ~Extends(ph, tb, coord, d, sol, ms[h])
           m == ms[n]
       IN  LexFirst(ph, tb, Turn(tb, coord, m.face, ReplaySteps(ph, m)), d - 1, Append(sol, m))

-----------------------------------------------------------------------------
(* SpecRange: set_coord called with a coordinate that is not below          *)
(* NUM_ELEMS, on the solved cube.                                           *)

\* The coordinates tried are NUM_ELEMS + d for d up to RangeOver and the
\* multiples m * NUM_ELEMS for m up to MaxMultiple.
RangeOver == 3

MaxMultiple == 64

OutOfRange(e) ==
  {NUM_ELEMS(e) + d : d \in 0 .. RangeOver}
    \cup {m * NUM_ELEMS(e) : m \in 1 .. MaxMultiple}

InitRange ==
  /\ enc \in Encoders
  /\ cin \in OutOfRange(enc)
  /\ cout = 0
  /\ trow = Fill(6, 0)
  /\ cube = solved
  /\ prev = solved
  /\ start = solved
  /\ moves = <<>>
  /\ panicked = FALSE
  /\ res = "none"
  /\ IdlePrune
  /\ IdleSearch

NextRange == SetCoord \/ GetCoord

SpecRange == InitRange /\ [][NextRange]_vars

\* C15: for every encoder, set_coord with a coordinate at or above NUM_ELEMS
\* does not return normally: it is rejected before a cube is produced.
C15_OutOfRangeRejected ==
  (res # "none" /\ cin >= NUM_ELEMS(enc)) => panicked

-----------------------------------------------------------------------------
(* SpecSearchLive: the search run to its end. phase0 / phase1 are            *)
(* sequential code: a step that can be taken is taken.                      *)

SpecSearchLive == SpecSearch /\ WF_vars(NextSearch)

\* The calls on the stack: at most depth_remaining + 1 of them (the recursion
\* is never deeper than depth_remaining), each with a depth_remaining one
\* below its caller's and not below 0.
DepthDecreases ==
  /\ Len(stack) <= depth0 + 1
  /\ \A j \in 1 .. Len(stack) :
       stack[j].depth = depth0 - (j - 1) /\ stack[j].depth >= 0

\* C16: every call of phase0 / phase1 terminates: the recursion is never
\* deeper than depth_remaining, depth_remaining goes down by one at every
\* recursive call, and the outermost call ends by returning true or false.
C16_Terminates ==
  /\ []DepthDecreases
  /\ <>(SearchReturned /\ ret \in {"true", "false"})

\* A search whose recursion has reached its full depth: depth_remaining + 1
\* calls are on the stack, the innermost with depth_remaining 0.
C16_Witness ==
  /\ depth0 = MaxDepth
  /\ Len(stack) = depth0 + 1
  /\ stack[Len(stack)].depth = 0

-----------------------------------------------------------------------------
(* The search without its pruning test.                                     *)

\* Some sequence of n moves or fewer, of any faces and counts, takes coord
\* to the zero triple.
RECURSIVE ReachesZero(_, _, _)
ReachesZero(tb, coord, n) ==
  \/ is_solved(coord)
  \/ /\ n > 0
     /\ \E f \in Faces : \E k \in 1 .. 3 :
          ReachesZero(tb, Turn(tb, coord, f, k), n - 1)

\* phase0 / phase1 with the test `depth_remaining < prune_depth(coord)`
\* removed: what it returns and the vector it leaves. TryMoves is its loops,
\* from the j-th move of MovesInOrder on.
RECURSIVE SearchNoPrune(_, _, _, _, _)
RECURSIVE TryMoves(_, _, _, _, _, _)
SearchNoPrune(ph, tb, coord, d, sol) ==
  IF d = 0
    THEN [ret |-> solution_check(ph, sol) /\ is_solved(coord), sol |-> sol]
    ELSE TryMoves(ph, tb, coord, d, sol, 1)

TryMoves(ph, tb, coord, d, sol, j) ==
  LET ms == MovesInOrder(ph)
  IN  IF j > Len(ms) THEN [ret |-> FALSE, sol |-> sol]
      ELSE IF skip_face(sol, ms[j].face) THEN TryMoves(ph, tb, coord, d, sol, j + 1)
      ELSE LET r == SearchNoPrune(ph, tb, Turn(tb, coord, ms[j].face, ReplaySteps(ph, ms[j])),
                                  d - 1, Append(sol, ms[j]))
           IN  IF r.ret THEN r ELSE TryMoves(ph, tb, coord, d, sol, j + 1)

\* The call on top of the stack is at its pruning test, which cuts it.
CutNow ==
  /\ stack # <<>>
  /\ ret = "none"
  /\ SearchTop.pc = "entry"
  /\ SearchTop.depth > 0
  /\ Pruned(tabs, SearchTop.coord, SearchTop.depth)

\* What the claim says of the search, for the tables of the premise pre: at
\* the entry of the outermost call prune_depth(coord) is at most the length
\* of every sequence that takes coord to the zero triple; a call the pruning
\* test cuts returns false without the test too; the outermost call returns
\* what the search without the test returns.
PruneCutSafe(pre) ==
  /\ (Len(stack) = 1 /\ SearchTop.pc = "entry" /\ pre) =>
       \A n \in 0 .. MaxDepth :
         ReachesZero(tabs, coord0, n) => prune_depth(tabs, coord0) <= n
  /\ (CutNow /\ SearchNoPrune(phase, tabs, SearchTop.coord, SearchTop.depth, solution).ret) =>
       ~pre
  /\ (SearchReturned /\ res = "none" /\ pre) =>
       LET r == SearchNoPrune(phase, tabs, coord0, depth0, sol0)
       IN  ret = BoolRet(r.ret) /\ solution = r.sol

-----------------------------------------------------------------------------
(* The number of moves a true search appends.                               *)

\* C18: when phase0 or phase1 returns true, exactly depth_remaining moves
\* have been appended to the solution vector, the call at the bottom of the
\* recursion having decided at depth_remaining 0; and a search from a
\* coordinate with no valid sequence of exactly depth_remaining moves returns
\* false, also when a shorter valid sequence exists.
C18_ExactlyDepthMoves ==
  /\ ret = "true" =>
       /\ Len(solution) = Len(sol0) + depth0
       /\ SubSeq(solution, 1, Len(sol0)) = sol0
  /\ (SearchReturned /\ res = "none"
        /\ ~ExistsExact(phase, tabs, coord0, depth0, sol0)) =>
       ret = "false"

\* A search of depth 2 that its pruning test does not cut, from a coordinate
\* that a search of depth 1 solves, returns false.
C18_Witness ==
  /\ SearchReturned
  /\ ret = "false"
  /\ depth0 = 2
  /\ ~Pruned(tabs, coord0, depth0)
  /\ ExistsExact(phase, tabs, coord0, 1, sol0)
  /\ SearchNoPrune(phase, tabs, coord0, 1, sol0).ret

-----------------------------------------------------------------------------
(* The rows of a transition table against the cube model.                   *)

\* C19: init_transition_table builds the row of a coordinate, and the row
\* holds, at the index of every face f, the coordinate of the cube of that
\* row after apply_move((f, turn_count[f])), which is below NUM_ELEMS.
C19_RowMatchesCube ==
  res = "row" =>
    /\ ~panicked
    /\ \A k \in 1 .. Len(FaceOrder) :
         LET f == FaceOrder[k]
             nc == apply_move(cube, Move(f, turn_counts(enc)[k]))
         IN  /\ ~nc.panic
             /\ At(trow, FaceAsUsize(f)) = get_coord(enc, nc.val)
             /\ At(trow, FaceAsUsize(f)) < NUM_ELEMS(enc)

-----------------------------------------------------------------------------
(* SpecAnyCube: set_coord called on a solvable cube that need not be the    *)
(* solved one, then get_coord.                                              *)

\* The coordinates tried are those below CoordsTried and the last one.
CoordsTried == 8

\* The cubes are those of TestCubes, which verify accepts; the encoders are
\* the four of transition_table.rs.
InitAnyCube ==
  /\ enc \in {"EO", "CO", "UD1", "EP"}
  /\ cin \in (0 .. CoordsTried - 1) \cup {NUM_ELEMS(enc) - 1}
  /\ cout = 0
  /\ trow = Fill(6, 0)
  /\ start \in TestCubes
  /\ cube = start
  /\ prev = start
  /\ moves = <<>>
  /\ panicked = FALSE
  /\ res = "none"
  /\ IdlePrune
  /\ IdleSearch

NextAnyCube == SetCoord \/ GetCoord

SpecAnyCube == InitAnyCube /\ [][NextAnyCube]_vars

\* C20: set_coord(c, i) on a solvable cube c returns with a cube verify
\* accepts, and UD1Coord and EPCoord have swapped cp[0] and cp[1] exactly when
\* the parity of the edge permutation they decoded differs from the parity of
\* the corner permutation of c.
C20_SetCoordKeepsSolvable ==
  res = "set" =>
    /\ ~panicked
    /\ verify(cube) = "Ok"
    /\ enc \in {"UD1", "EP"} =>
         /\ cube.cp # start.cp <=> edge_parity(cube) # corner_parity(start)
         /\ cube.cp # start.cp =>
              /\ At(cube.cp, 0) = At(start.cp, 1)
              /\ At(cube.cp, 1) = At(start.cp, 0)
              /\ \A i \in 2 .. NUM_CORNERS - 1 : At(cube.cp, i) = At(start.cp, i)

-----------------------------------------------------------------------------
(* SpecPhase0Coord: Phase0Coord::from(cube) and is_solved on it, for        *)
(* solvable cubes.                                                          *)

\* An array with its slots i and j exchanged.
SwapSlots(a, i, j) == [a EXCEPT ![i + 1] = At(a, j), ![j + 1] = At(a, i)]

\* The edge orientations with no edge or two edges flipped.
FlippedPairs ==
  {Fill(12, 0)} \cup
  { [s \in Slots(12) |-> IF s - 1 \in {i, j} THEN 1 ELSE 0] :
      i \in 0 .. 11, j \in 0 .. 11 }

\* The corner orientations with no corner twisted, or one twisted by 1 and
\* another by 2.
TwistedPairs ==
  {Fill(8, 0)} \cup
  { [s \in Slots(8) |-> IF s - 1 = i THEN 1 ELSE IF s - 1 = j THEN 2 ELSE 0] :
      i \in 0 .. 7, j \in 0 .. 7 }

\* The solved edge permutation with two slots exchanged, or with two such
\* exchanges.
SwappedEdges ==
  { SwapSlots(SolvedEP, i, j) : i \in 0 .. 11, j \in 0 .. 11 }

TwiceSwappedEdges ==
  { SwapSlots(SwapSlots(SolvedEP, 8, j), i, 11) : i \in {9, 10, 3}, j \in {9, 0, 7} }

\* The corner permutation that gives the corners the parity of the edges ep:
\* the solved one, or the one with the corners 0 and 1 exchanged.
CornersFor(ep) ==
  IF num_inversions(ep, NUM_EDGES) % 2 = 0 THEN SolvedCP
  ELSE SwapSlots(SolvedCP, 0, 1)

\* The cubes Phase0Coord::from is called on: those of TestCubes, the cubes
\* that differ from the solved one in the edge orientation, in the corner
\* orientation or in the edge permutation alone, and the cubes that combine a
\* flip of the last edge, a twist of the last corner and an exchange of edges.
Phase0Cubes ==
  TestCubes
    \cup { MkCube(SolvedCP, Fill(8, 0), SolvedEP, eo) : eo \in FlippedPairs }
    \cup { MkCube(SolvedCP, co, SolvedEP, Fill(12, 0)) : co \in TwistedPairs }
    \cup { MkCube(CornersFor(ep), Fill(8, 0), ep, Fill(12, 0)) :
             ep \in SwappedEdges \cup TwiceSwappedEdges }
    \cup { MkCube(CornersFor(ep), co, ep, eo) :
             eo \in {e \in FlippedPairs : At(e, 11) = 1} \cup {Fill(12, 0)},
             co \in {t \in TwistedPairs : At(t, 7) # 0} \cup {Fill(8, 0)},
             ep \in {SolvedEP, SwapSlots(SolvedEP, 0, 1), SwapSlots(SolvedEP, 8, 9),
                     SwapSlots(SolvedEP, 7, 8)} }

\* A Phase0Coord that leaves the slice edges out.
Phase0Coord_from_NoUD1(c) ==
  <<EOCoord_get_coord(c), COCoord_get_coord(c), 0>>

\* impl From<Cube> for Phase0Coord
Phase0Coord_from(c) ==
  <<EOCoord_get_coord(c), COCoord_get_coord(c), UD1Coord_get_coord(c)>>

\* The cube is one verify accepts.
InitPhase0Coord ==
  /\ start \in {c \in Phase0Cubes : verify(c) = "Ok"}
  /\ cube = start
  /\ prev = start
  /\ moves = <<>>
  /\ panicked = FALSE
  /\ res = "none"
  /\ IdleCoord
  /\ IdlePrune
  /\ IdleSearch

\* let coord: Phase0Coord = c.into();
IntoPhase0Coord ==
  /\ res = "none"
  /\ coord0' = Phase0Coord_from(cube)
  /\ res' = "coord"
  /\ UNCHANGED <<cube, prev, start, moves, panicked>>
  /\ UNCHANGED <<phase, tabs, depth0, sol0, solution, stack, ret>>
  /\ UNCHANGED <<coordVars, pruneVars>>

\* coord.is_solved()
Phase0IsSolved ==
  /\ res = "coord"
  /\ ret' = BoolRet(is_solved(coord0))
  /\ res' = "is_solved"
  /\ UNCHANGED <<cube, prev, start, moves, panicked>>
  /\ UNCHANGED <<phase, tabs, coord0, depth0, sol0, solution, stack>>
  /\ UNCHANGED <<coordVars, pruneVars>>

NextPhase0Coord == IntoPhase0Coord \/ Phase0IsSolved

SpecPhase0Coord == InitPhase0Coord /\ [][NextPhase0Coord]_vars

\* The cube is in G1: every edge and every corner orientation is 0 and the
\* edges FR, FL, BL, BR are in the slots 8..11.
InG1(c) ==
  /\ \A i \in 0 .. NUM_EDGES - 1 : At(c.eo, i) = 0
  /\ \A i \in 0 .. NUM_CORNERS - 1 : At(c.co, i) = 0
  /\ {At(c.ep, i) : i \in 8 .. 11} = 8 .. 11

\* C21: for a solvable cube c, Phase0Coord::from(c) is the zero triple, and
\* is_solved true on it, exactly when c is in G1; the orientations the
\* coordinate does not encode, eo[11] and co[7], are 0 when it is zero.
C21_ZeroIffG1 ==
  /\ res \in {"coord", "is_solved"} =>
       /\ coord0 = <<0, 0, 0>> <=> InG1(cube)
       /\ coord0 = <<0, 0, 0>> => At(cube.eo, 11) = 0 /\ At(cube.co, 7) = 0
  /\ res = "is_solved" => (ret = "true" <=> InG1(cube))

\* A cube of G1 that is not the solved one, two slice edges and two corners
\* exchanged, found solved.
C21_Witness ==
  /\ res = "is_solved"
  /\ ret = "true"
  /\ cube.ep = SwapSlots(SolvedEP, 8, 9)
  /\ cube.cp # SolvedCP

=============================================================================
